---------------------------- MODULE Spec2Model ----------------------------
(***************************************************************************)
(* A model of pytempo's TempoDetector (src/pytempo/detector.py): a         *)
(* producer thread calling add_sample, a bounded queue, and the consumer   *)
(* thread _run_data_processing that collects blocks, runs _detect_beat and *)
(* _detect_tempos on each and publishes the result.                        *)
(*                                                                         *)
(* Sizes.  The tempo estimator's numbers are the source's: 43 energies per *)
(* band, 43*7 beat flags per band, gap lengths range(19, 35), threshold    *)
(* 1.3, plausibility band (71, 139).  The block length, the number of      *)
(* sub-bands and the queue capacity are scaled down (1024 -> 4, 32 -> 4,   *)
(* 16 -> 2, 1024 -> 4) so that the Fourier transform of a block is exact   *)
(* in Gaussian integers and the interleavings stay enumerable.             *)
(*                                                                         *)
(* Arithmetic.  Python floats are modelled by exact rationals: a BPM is    *)
(* the fraction num/den, and x > avg * 1.3 with avg = sum / 43 is compared *)
(* after cross-multiplication.  Rounding of the float operations is not    *)
(* modelled.                                                               *)
(***************************************************************************)
EXTENDS Integers, Sequences, FiniteSets, TLC

VARIABLES
    stream,       \* the sample stream the producer feeds (chosen at start)
    arg,          \* add_sample: the sample of the call in progress, or NoSample
    produced,     \* number of add_sample calls that have returned
    queue,        \* self._in_queue
    data,         \* _run_data_processing: the block buffer
    idx,          \* _run_data_processing: next slot of data (0-based)
    pc,           \* consumer: "get" (at self._in_queue.get()), "process",
                  \* or "dead" (the thread has ended)
    consumed,     \* number of samples the consumer has dequeued
    energy_hist,  \* self._energy_hist_per_freq_band, one deque per band
    beat_hist,    \* self._beat_histories, one deque per band
    published,    \* the arguments of publisher.publish, in call order
    lastBlock,    \* the block most recently handed to _detect_beat
    run,          \* 1: first pipeline; 2: a fresh pipeline replaying stream
    firstRun,     \* what the first pipeline published (set on replay)
    hist,         \* estimator bench: a beat history handed to _detect_tempo
    result,       \* estimator bench: what _detect_tempo returned
    gap_counts    \* estimator bench: gap_length_counts when it returned

vars == <<stream, arg, produced, queue, data, idx, pc, consumed, energy_hist,
          beat_hist, published, lastBlock, run, firstRun, hist, result,
          gap_counts>>

pipeVars == <<stream, arg, produced, queue, data, idx, pc, consumed,
              energy_hist, beat_hist, published, lastBlock, run, firstRun>>

-----------------------------------------------------------------------------
(* Sizes and constants *)

\* data = [0] * 1024; if idx == 1023 (scaled: 1024 -> 4)
BlockSize == 4

\* Queue(maxsize=1024) (scaled: 1024 -> 4)
QueueCap == 4

\* range(32) sub-bands of 32 bins each (scaled: 4 sub-bands of 1 bin)
NumBands == BlockSize

BinsPerBand == BlockSize \div NumBands

\* range(16): the lower half of the sub-bands
LowBands == NumBands \div 2

\* deque(maxlen=43); sum(x) / 43; gap_length / 43
BlocksPerSec == 43

\* deque(maxlen=43*7); len(beat_history) == 43*7
BeatHistLen == BlocksPerSec * 7

\* range(19, 35)
GapLo == 19

GapHi == 35

\* gap_length_counts[gap_length] < 2
MinOccur == 2

\* len(bpm_candidates) < 2
MinVotes == 2

\* 71 < bpm < 139
BpmLo == 71

BpmHi == 139

\* inst_nrg > avg_nrg * 1.3, as the fraction 13/10
ThreshNum == 13

ThreshDen == 10

\* length of a freely chosen stream, in samples
FreeLen == 9

\* length of a click stream, in blocks
MaxBlocks == 350

\* Python's None as a publish argument: no fraction has den = 0
None == [num |-> 0, den |-> 0]

\* no add_sample call in progress (a sample is a non-empty tuple)
NoSample == <<>>

-----------------------------------------------------------------------------
(* Sequences *)

RECURSIVE SumSeq(_)
SumSeq(s) == IF s = <<>> THEN 0 ELSE Head(s) + SumSeq(Tail(s))

\* a deque built without maxlen
DequeAppend_Unbounded(d, x, maxlen) == Append(d, x)

\* a deque that drops the newest entry instead of the oldest when full
DequeAppend_EvictNewest(d, x, maxlen) ==
    IF Len(d) < maxlen THEN Append(d, x)
    ELSE Append(SubSeq(d, 1, Len(d) - 1), x)

\* deque(maxlen=n).append(x): the oldest entry goes when the deque is full
DequeAppend(d, x, maxlen) ==
    IF Len(d) < maxlen THEN Append(d, x) ELSE Append(Tail(d), x)

\* number of entries of s equal to x
CountOf(s, x) == Cardinality({i \in 1..Len(s) : s[i] = x})

\* counts.sort without reverse=True: counts[0][0] is then the value with
\* the smallest count
MostCommon_LeastCommon(s) ==
    LET best == CHOOSE i \in 1..Len(s) :
                  /\ \A j \in 1..Len(s) : CountOf(s, s[j]) >= CountOf(s, s[i])
                  /\ \A j \in 1..(i-1) : CountOf(s, s[j]) > CountOf(s, s[i])
    IN s[best]

\* counts = [(key, counts[key]) ...]; counts.sort(key=count, reverse=True);
\* counts[0][0].  The dict keeps first-insertion order and the sort is
\* stable, so the result is the value with the largest count whose first
\* occurrence in s is earliest.
MostCommon(s) ==
    LET best == CHOOSE i \in 1..Len(s) :
                  /\ \A j \in 1..Len(s) : CountOf(s, s[j]) <= CountOf(s, s[i])
                  /\ \A j \in 1..(i-1) : CountOf(s, s[j]) < CountOf(s, s[i])
    IN s[best]

-----------------------------------------------------------------------------
(* fft: complex numbers are pairs <<re, im>> *)

CAdd(x, y) == <<x[1] + y[1], x[2] + y[2]>>

CSub(x, y) == <<x[1] - y[1], x[2] - y[2]>>

CMul(x, y) == <<x[1]*y[1] - x[2]*y[2], x[1]*y[2] + x[2]*y[1]>>

\* exp(-2j * pi * k / n), exact for the n that divide 4
Twiddle(k, n) ==
    CASE k = 0              -> <<1, 0>>
      [] n = 4 /\ k = 1     -> <<0, -1>>
      [] n = 2 /\ k = 1     -> <<-1, 0>>
      [] n = 4 /\ k = 2     -> <<-1, 0>>
      [] n = 4 /\ k = 3     -> <<0, 1>>

\* x[0::2] and x[1::2]
EvenPart(x) == [k \in 1..((Len(x) + 1) \div 2) |-> x[2*k - 1]]

OddPart(x) == [k \in 1..(Len(x) \div 2) |-> x[2*k]]

RECURSIVE fft(_)
fft(x) ==
    LET n == Len(x) IN
    IF n <= 1 THEN x
    ELSE LET even == fft(EvenPart(x))
             odd  == fft(OddPart(x))
             h    == n \div 2
             t    == [k \in 1..h |-> CMul(Twiddle(k - 1, n), odd[k])]
         IN [k \in 1..h |-> CAdd(even[k], t[k])]
              \o [k \in 1..h |-> CSub(even[k], t[k])]

-----------------------------------------------------------------------------
(* _gap_to_bpm, _detect_tempo, _detect_tempos *)

\* (1 / (gap_length / 43)) * 60.0, as the fraction 43*60 / gap_length
gap_to_bpm(gap_length) == [num |-> BlocksPerSec * 60, den |-> gap_length]

\* c < bpm and bpm < c for an integer c
BpmAbove(bpm, c) == c * bpm.den < bpm.num

BpmBelow(bpm, c) == bpm.num < c * bpm.den

\* end = start + gap_length + 1: pairs one block too far apart
GapCount_OffByOne(beat_history, gap_length) ==
    Cardinality({start \in 0..(Len(beat_history) - gap_length - 2) :
                    /\ beat_history[start + 1] = TRUE
                    /\ beat_history[start + gap_length + 2] = TRUE})

\* range(0, len(beat_history) - gap_length - 1): the last start is skipped
GapCount_ShortScan(beat_history, gap_length) ==
    Cardinality({start \in 0..(Len(beat_history) - gap_length - 2) :
                    /\ beat_history[start + 1] = TRUE
                    /\ beat_history[start + gap_length + 1] = TRUE})

\* gap_length_counts[gap_length] after the counting loops (0: key absent)
GapCount(beat_history, gap_length) ==
    Cardinality({start \in 0..(Len(beat_history) - gap_length - 1) :
                    /\ beat_history[start + 1] = TRUE
                    /\ beat_history[start + gap_length + 1] = TRUE})

\* without the discard of gaps noticed only once
GapVotes_KeepSingles(count, gap_length) ==
    [k \in 1..count |-> gap_to_bpm(gap_length)]

\* the votes of one gap length: none when it was noticed fewer than 2
\* times, else one per occurrence
GapVotes(count, gap_length) ==
    IF count < MinOccur THEN <<>>
    ELSE [k \in 1..count |-> gap_to_bpm(gap_length)]

\* bpm_candidates: for each counted gap in insertion (ascending) order, one
\* vote per occurrence, skipping gaps seen fewer than 2 times
RECURSIVE BpmCandidatesFrom(_, _)
BpmCandidatesFrom(beat_history, gap_length) ==
    IF gap_length >= GapHi THEN <<>>
    ELSE GapVotes(GapCount(beat_history, gap_length), gap_length)
            \o BpmCandidatesFrom(beat_history, gap_length + 1)

BpmCandidates(beat_history) == BpmCandidatesFrom(beat_history, GapLo)

\* gap_length_counts as a dict: a key for each gap length that was counted
\* at least once; no key at all when the history is not full, because
\* _detect_tempo returns before the counting loops
GapLengthCounts(beat_history) ==
    IF Len(beat_history) # BeatHistLen THEN <<>>
    ELSE [gap_length \in {g \in GapLo..(GapHi - 1) :
                              GapCount(beat_history, g) > 0}
              |-> GapCount(beat_history, gap_length)]

\* without the wait for a full history
detect_tempo_NoWarmUp(beat_history) ==
    LET bpm_candidates == BpmCandidates(beat_history) IN
    IF Len(bpm_candidates) < MinVotes THEN None
    ELSE LET bpm == MostCommon(bpm_candidates) IN
         IF BpmAbove(bpm, BpmLo) /\ BpmBelow(bpm, BpmHi) THEN bpm
         ELSE None

\* with a plausibility band that starts at 76 BPM
detect_tempo_NarrowBand(beat_history) ==
    IF Len(beat_history) # BeatHistLen THEN None
    ELSE LET bpm_candidates == BpmCandidates(beat_history) IN
         IF Len(bpm_candidates) < MinVotes THEN None
         ELSE LET bpm == MostCommon(bpm_candidates) IN
              IF BpmAbove(bpm, 76) /\ BpmBelow(bpm, BpmHi) THEN bpm
              ELSE None

detect_tempo(beat_history) ==
    IF Len(beat_history) # BeatHistLen THEN None
    ELSE LET bpm_candidates == BpmCandidates(beat_history) IN
         IF Len(bpm_candidates) < MinVotes THEN None
         ELSE LET bpm == MostCommon(bpm_candidates) IN
              IF BpmAbove(bpm, BpmLo) /\ BpmBelow(bpm, BpmHi) THEN bpm
              ELSE None

\* band_bpms, with the None entries filtered out
RECURSIVE BandBpmsFrom(_, _)
BandBpmsFrom(histories, freq_band_idx) ==
    IF freq_band_idx > LowBands THEN <<>>
    ELSE LET bpm == detect_tempo(histories[freq_band_idx]) IN
         (IF bpm = None THEN <<>> ELSE <<bpm>>)
            \o BandBpmsFrom(histories, freq_band_idx + 1)

\* return counts[0][1]: the number of bands instead of their BPM
detect_tempos_ReturnsCount(histories) ==
    LET band_bpms == BandBpmsFrom(histories, 1) IN
    IF Len(band_bpms) = 0 THEN None
    ELSE [num |-> CountOf(band_bpms, MostCommon(band_bpms)), den |-> 1]

detect_tempos(histories) ==
    LET band_bpms == BandBpmsFrom(histories, 1) IN
    IF Len(band_bpms) = 0 THEN None ELSE MostCommon(band_bpms)

-----------------------------------------------------------------------------
(* _detect_beat *)

\* sum(d) / len(d) for one sample; exact for the samples used here, whose
\* channel sums are multiples of their channel counts
Collapse(d) == SumSeq(d) \div Len(d)

\* d.real*d.real + d.imag*d.imag
Power(d) == d[1]*d[1] + d[2]*d[2]

\* inst_sub_band_energies for a block of samples
SubBandEnergies(block) ==
    LET mono == [i \in 1..Len(block) |-> <<Collapse(block[i]), 0>>]
        ampls_per_freq == [i \in 1..Len(block) |-> Power(fft(mono)[i])]
    IN [sub_band \in 1..NumBands |->
          SumSeq([i \in 1..BinsPerBand |->
                    ampls_per_freq[(sub_band - 1) * BinsPerBand + i]])]

\* inst_nrg >= avg_nrg * 1.3
BeatFound_GreaterEqual(inst_nrg, history) ==
    ThreshDen * BlocksPerSec * inst_nrg >= ThreshNum * SumSeq(history)

\* inst_nrg > avg_nrg * 1.3 with avg_nrg = sum(history) / 43
BeatFound(inst_nrg, history) ==
    ThreshDen * BlocksPerSec * inst_nrg > ThreshNum * SumSeq(history)

\* the energy histories after the appends of lines 185-188
EnergyAfter(eh, block) ==
    LET inst == SubBandEnergies(block) IN
    [b \in 1..NumBands |-> DequeAppend(eh[b], inst[b], BlocksPerSec)]

\* one flag per block, true when at least 2 lower bands beat together
BeatAfter_AggregateFlag(bh, eh, block) ==
    LET inst == SubBandEnergies(block)
        eh2  == EnergyAfter(eh, block)
        flag == Cardinality({b \in 1..LowBands :
                               BeatFound(inst[b], eh2[b])}) >= 2
    IN IF Len(eh2[1]) = BlocksPerSec
       THEN [b \in 1..NumBands |->
               IF b <= LowBands THEN DequeAppend(bh[b], flag, BeatHistLen)
               ELSE bh[b]]
       ELSE bh

\* the mean taken over the history as it was before this block's energy
\* was appended
BeatAfter_PriorBaseline(bh, eh, block) ==
    LET inst == SubBandEnergies(block)
    IN IF Len(eh[1]) = BlocksPerSec
       THEN [b \in 1..NumBands |->
               IF b <= LowBands
               THEN DequeAppend(bh[b], BeatFound(inst[b], eh[b]), BeatHistLen)
               ELSE bh[b]]
       ELSE bh

\* with an else branch that records false while the energy histories fill
BeatAfter_ColdStartFalse(bh, eh, block) ==
    LET inst == SubBandEnergies(block)
        eh2  == EnergyAfter(eh, block)
    IN [b \in 1..NumBands |->
          IF b <= LowBands
          THEN DequeAppend(bh[b],
                           Len(eh2[1]) = BlocksPerSec
                               /\ BeatFound(inst[b], eh2[b]),
                           BeatHistLen)
          ELSE bh[b]]

\* the beat histories after lines 192-207
BeatAfter(bh, eh, block) ==
    LET inst == SubBandEnergies(block)
        eh2  == EnergyAfter(eh, block)
    IN IF Len(eh2[1]) = BlocksPerSec
       THEN [b \in 1..NumBands |->
               IF b <= LowBands
               THEN DequeAppend(bh[b], BeatFound(inst[b], eh2[b]), BeatHistLen)
               ELSE bh[b]]
       ELSE bh

-----------------------------------------------------------------------------
(* The sample streams fed to add_sample.  A sample is the tuple of its     *)
(* channel values.  A stream is fixed when the run starts:                 *)
(*   free:    body, any sequence of FreeLen samples;                       *)
(*   silence: all-zero mono samples;                                       *)
(*   click:   a unit impulse every 60/a seconds at 43 blocks per second,   *)
(*            the first one b/a samples into the stream;                   *)
(*   bands:   stereo; every a-th block is constant (energy in sub-band 1   *)
(*            only) and, when b > 0, every b-th block alternates           *)
(*            1, 0, -1, 0 (energy in sub-band 2 only among the lower ones) *)
(*   steady:  every block is one impulse of amplitude a (the same energy   *)
(*            a*a in every sub-band), but for block number body[1], whose  *)
(*            impulse has amplitude b.                                     *)

FreeSamples == {<<0>>, <<1>>}

\* samples per click period, times the tempo a
ClickPeriod == 60 * BlocksPerSec * BlockSize

\* number of clicks at sample positions 0..n of a click stream
ClicksUpTo(st, n) == ((n + 1) * st.a - st.b - 1) \div ClickPeriod + 1

BandsSample(st, n) ==
    LET blk == n \div BlockSize
        j   == n % BlockSize
    IN IF blk % st.a = 0 THEN <<2, 0>>
       ELSE IF st.b > 0 /\ blk % st.b = 1
            THEN (CASE j = 0 -> <<2, 0>> [] j = 2 -> <<0, -2>>
                    [] OTHER -> <<0, 0>>)
            ELSE <<0, 0>>

StreamLen(st) ==
    IF st.kind = "free" THEN Len(st.body) ELSE MaxBlocks * BlockSize

\* the n-th sample of the stream, n = 1, 2, ...
StreamAt(st, n) ==
    CASE st.kind = "free"    -> st.body[n]
      [] st.kind = "silence" -> <<0>>
      [] st.kind = "click"   ->
            IF ClicksUpTo(st, n - 1) > ClicksUpTo(st, n - 2)
            THEN <<1>> ELSE <<0>>
      [] st.kind = "bands"   -> BandsSample(st, n - 1)
      [] st.kind = "steady"  ->
            IF (n - 1) % BlockSize # 0 THEN <<0>>
            ELSE IF (n - 1) \div BlockSize + 1 = st.body[1] THEN <<st.b>>
                 ELSE <<st.a>>

\* samples from..to of the stream
StreamSlice(st, from, to) == [i \in 1..(to - from + 1) |-> StreamAt(st, from + i - 1)]

FreeStreams ==
    {[kind |-> "free", a |-> 0, b |-> 0, body |-> s] :
        s \in [1..FreeLen -> FreeSamples]}

Tempos == {85, 105, 120}

ClickOffsets == {0, 3000}

ClickStreams ==
    {[kind |-> "click", a |-> t, b |-> o, body |-> <<>>] :
        t \in Tempos, o \in ClickOffsets}

SilenceStream == [kind |-> "silence", a |-> 0, b |-> 0, body |-> <<>>]

BandsStreams ==
    {[kind |-> "bands", a |-> 25, b |-> 0, body |-> <<>>],
     [kind |-> "bands", a |-> 21, b |-> 30, body |-> <<>>],
     [kind |-> "bands", a |-> 30, b |-> 21, body |-> <<>>]}

\* level 7 (energy 49); block 50 at 8 (energy 64, 1.306 times the level)
\* or at 9 (energy 81, 1.65 times the level)
SteadyStreams ==
    {[kind |-> "steady", a |-> 7, b |-> p, body |-> <<50>>] : p \in {8, 9}}

LongStreams == ClickStreams \cup {SilenceStream} \cup BandsStreams

-----------------------------------------------------------------------------
(* The pipeline *)

\* TempoDetector.__init__ and the first lines of _run_data_processing
Fresh ==
    /\ arg = NoSample
    /\ produced = 0
    /\ queue = <<>>
    /\ data = [i \in 1..BlockSize |-> 0]
    /\ idx = 0
    /\ pc = "get"
    /\ consumed = 0
    /\ energy_hist = [b \in 1..NumBands |-> <<>>]
    /\ beat_hist = [b \in 1..NumBands |-> <<>>]
    /\ published = <<>>
    /\ lastBlock = <<>>

BenchIdle == hist = <<>> /\ result = <<>> /\ gap_counts = <<>>

Init ==
    /\ stream \in FreeStreams
    /\ Fresh
    /\ run = 1 /\ firstRun = <<>>
    /\ BenchIdle

InitLong ==
    /\ stream \in LongStreams
    /\ Fresh
    /\ run = 1 /\ firstRun = <<>>
    /\ BenchIdle

\* self._publisher.publish(bpm): the publisher's log after the call
Publish_OnlyEstimates(log, bpm) == IF bpm = None THEN log ELSE Append(log, bpm)

Publish(log, bpm) == Append(log, bpm)

\* the producer calls add_sample with the next sample of the stream
AddSampleCall ==
    /\ arg = NoSample
    /\ produced < StreamLen(stream)
    /\ arg' = StreamAt(stream, produced + 1)
    /\ UNCHANGED <<stream, produced, queue, data, idx, pc, consumed,
                   energy_hist, beat_hist, published, lastBlock, run,
                   firstRun, hist, result, gap_counts>>

\* put on a queue built without maxsize: never waits
AddSamplePut_Unbounded ==
    /\ arg # NoSample
    /\ queue' = Append(queue, arg)
    /\ arg' = NoSample
    /\ produced' = produced + 1
    /\ UNCHANGED <<stream, data, idx, pc, consumed, energy_hist, beat_hist,
                   published, lastBlock, run, firstRun, hist, result,
                   gap_counts>>

\* put_nowait with queue.Full swallowed: a sample that finds the queue
\* full is dropped
AddSamplePut_DropWhenFull ==
    /\ arg # NoSample
    /\ queue' = IF Len(queue) < QueueCap THEN Append(queue, arg) ELSE queue
    /\ arg' = NoSample
    /\ produced' = produced + 1
    /\ UNCHANGED <<stream, data, idx, pc, consumed, energy_hist, beat_hist,
                   published, lastBlock, run, firstRun, hist, result,
                   gap_counts>>

\* self._in_queue.put(sample): waits while the queue is full, then returns
AddSamplePut ==
    /\ arg # NoSample
    /\ Len(queue) < QueueCap
    /\ queue' = Append(queue, arg)
    /\ arg' = NoSample
    /\ produced' = produced + 1
    /\ UNCHANGED <<stream, data, idx, pc, consumed, energy_hist, beat_hist,
                   published, lastBlock, run, firstRun, hist, result,
                   gap_counts>>

\* get on a LifoQueue: takes the newest sample
ConsumerGet_Lifo ==
    /\ pc = "get"
    /\ queue # <<>>
    /\ data' = [data EXCEPT ![idx + 1] = queue[Len(queue)]]
    /\ queue' = SubSeq(queue, 1, Len(queue) - 1)
    /\ consumed' = consumed + 1
    /\ IF idx = BlockSize - 1
       THEN pc' = "process" /\ idx' = idx
       ELSE pc' = "get" /\ idx' = idx + 1
    /\ UNCHANGED <<stream, arg, produced, energy_hist, beat_hist, published,
                   lastBlock, run, firstRun, hist, result, gap_counts>>

\* a consumer that waits for the queue to fill up before it takes a sample
ConsumerGet_WhenFull ==
    /\ pc = "get"
    /\ Len(queue) = QueueCap
    /\ data' = [data EXCEPT ![idx + 1] = Head(queue)]
    /\ queue' = Tail(queue)
    /\ consumed' = consumed + 1
    /\ IF idx = BlockSize - 1
       THEN pc' = "process" /\ idx' = idx
       ELSE pc' = "get" /\ idx' = idx + 1
    /\ UNCHANGED <<stream, arg, produced, energy_hist, beat_hist, published,
                   lastBlock, run, firstRun, hist, result, gap_counts>>

\* data[idx] = self._in_queue.get(): waits while the queue is empty
ConsumerGet ==
    /\ pc = "get"
    /\ queue # <<>>
    /\ data' = [data EXCEPT ![idx + 1] = Head(queue)]
    /\ queue' = Tail(queue)
    /\ consumed' = consumed + 1
    /\ IF idx = BlockSize - 1
       THEN pc' = "process" /\ idx' = idx
       ELSE pc' = "get" /\ idx' = idx + 1
    /\ UNCHANGED <<stream, arg, produced, energy_hist, beat_hist, published,
                   lastBlock, run, firstRun, hist, result, gap_counts>>

\* idx == 1023: self._detect_beat(data); bpm = self._detect_tempos();
\* self._publisher.publish(bpm); idx = 0
ConsumerProcess ==
    /\ pc = "process"
    /\ energy_hist' = EnergyAfter(energy_hist, data)
    /\ beat_hist' = BeatAfter(beat_hist, energy_hist, data)
    /\ published' = Publish(published, detect_tempos(beat_hist'))
    /\ lastBlock' = data
    /\ idx' = 0
    /\ pc' = "get"
    /\ UNCHANGED <<stream, arg, produced, queue, data, consumed, run,
                   firstRun, hist, result, gap_counts>>

Next == AddSampleCall \/ AddSamplePut \/ ConsumerGet \/ ConsumerProcess

Spec == Init /\ [][Next]_vars

\* The threads are scheduled fairly: the consumer thread gets to run when
\* it can take a sample (Queue.get wakes up when the queue is not empty),
\* and a put that has room in the queue completes; each of these steps
\* changes the variable of its subscript.  The analysis of a block and the
\* publisher return: the consumer is not processing a block forever.
\* Nothing makes the producer call add_sample again.
SpecFair ==
    /\ Init /\ [][Next]_vars
    /\ WF_consumed(ConsumerGet)
    /\ WF_produced(AddSamplePut)
    /\ []<>(pc # "process")

\* idx == 1023: self._detect_beat(data), and self._fft(data) raises.
\* Nothing catches the exception in _detect_beat or _run_data_processing:
\* it leaves the while loop and the thread's target returns.  The lines of
\* _detect_beat after the transform, the publish and idx = 0 do not run.
ConsumerProcessFails ==
    /\ pc = "process"
    /\ pc' = "dead"
    /\ UNCHANGED <<stream, arg, produced, queue, data, idx, consumed,
                   energy_hist, beat_hist, published, lastBlock, run,
                   firstRun, hist, result, gap_counts>>

\* a transform (fft_impl) that may raise on any block
NextFail == Next \/ ConsumerProcessFails

SpecFail == Init /\ [][NextFail]_vars

\* streams of nearly constant energy, and one click stream
InitSteady ==
    /\ stream \in SteadyStreams
                   \cup {[kind |-> "click", a |-> 120, b |-> 0, body |-> <<>>]}
    /\ Fresh
    /\ run = 1 /\ firstRun = <<>>
    /\ BenchIdle

SpecSteady == InitSteady /\ [][Next]_vars

SpecLong == InitLong /\ [][Next]_vars

-----------------------------------------------------------------------------
(* Replay: when the first pipeline has processed the whole stream, a       *)
(* freshly constructed one is fed the same stream.                         *)

Finished ==
    /\ arg = NoSample
    /\ produced = StreamLen(stream)
    /\ queue = <<>>
    /\ pc = "get"

Replay ==
    /\ run = 1
    /\ Finished
    /\ run' = 2
    /\ firstRun' = published
    /\ arg' = NoSample
    /\ produced' = 0
    /\ queue' = <<>>
    /\ data' = [i \in 1..BlockSize |-> 0]
    /\ idx' = 0
    /\ pc' = "get"
    /\ consumed' = 0
    /\ energy_hist' = [b \in 1..NumBands |-> <<>>]
    /\ beat_hist' = [b \in 1..NumBands |-> <<>>]
    /\ published' = <<>>
    /\ lastBlock' = <<>>
    /\ UNCHANGED <<stream, hist, result, gap_counts>>

ReplayStreams ==
    FreeStreams \cup
    {[kind |-> "click", a |-> 120, b |-> 0, body |-> <<>>],
     [kind |-> "bands", a |-> 21, b |-> 30, body |-> <<>>]}

InitReplay ==
    /\ stream \in ReplayStreams
    /\ Fresh
    /\ run = 1 /\ firstRun = <<>>
    /\ BenchIdle

NextReplay == Next \/ Replay

SpecReplay == InitReplay /\ [][NextReplay]_vars

-----------------------------------------------------------------------------
(* The estimator alone: _detect_tempo applied to a beat history.  The      *)
(* histories have their true flags at start, start + g1, start + g1 + g2,  *)
(* ... for up to MaxGaps gaps drawn from BenchGaps, and are full (43*7     *)
(* flags) or one flag short.                                               *)

\* number of gaps between the true flags of a bench history
MaxGaps == 4

BenchGaps == {17, 19, 20, 35}

BenchStarts == {1, BeatHistLen - 2 * GapLo}

\* longer gap sequences in which two gap lengths recur unequally often
ExtraGapSeqs ==
    {<<19, 19, 19, 20, 20>>, <<20, 20, 20, 19, 19>>,
     <<21, 22, 21, 22, 21>>, <<34, 34, 34, 19, 19>>}

GapSeqs == UNION {[1..n -> BenchGaps] : n \in 0..MaxGaps} \cup ExtraGapSeqs

\* position of the k-th true flag, k = 0..Len(gs)
FlagAt(start, gs, k) == start + SumSeq(SubSeq(gs, 1, k))

HistoryOf(len, start, gs) ==
    [i \in 1..len |-> \E k \in 0..Len(gs) : FlagAt(start, gs, k) = i]

BenchHistories ==
    {HistoryOf(len, start, gs) :
        len \in {BeatHistLen - 1, BeatHistLen}, start \in BenchStarts,
        gs \in GapSeqs}

InitTempo ==
    /\ stream = SilenceStream
    /\ Fresh
    /\ run = 1 /\ firstRun = <<>>
    /\ hist \in BenchHistories
    /\ result = <<>>
    /\ gap_counts = <<>>

\* self._detect_tempo(history)
ApplyDetectTempo ==
    /\ result = <<>>
    /\ result' = <<detect_tempo(hist)>>
    /\ gap_counts' = GapLengthCounts(hist)
    /\ UNCHANGED <<pipeVars, hist>>

NextTempo == ApplyDetectTempo

SpecTempo == InitTempo /\ [][NextTempo]_vars

-----------------------------------------------------------------------------
(* Properties *)

\* the k-th block of the stream, k = 1, 2, ...
StreamBlock(st, k) == StreamSlice(st, (k - 1) * BlockSize + 1, k * BlockSize)

IsBpm(v) == v.den > 0 /\ v.num > 0

\* C1: one publish call per block dequeued.  When the consumer is back at
\* get after n samples, exactly n div BlockSize publish calls have been
\* made (one fewer while the block just completed is being processed); the
\* latest call followed the analysis of the block with that number and
\* carried what _detect_tempos returned for it, a BPM or None.
C1_OnePublishPerBlock ==
    /\ pc = "get" => Len(published) = consumed \div BlockSize
    /\ pc = "process" => /\ consumed % BlockSize = 0
                         /\ Len(published) = consumed \div BlockSize - 1
    /\ Len(published) >= 1 =>
          /\ lastBlock = StreamBlock(stream, Len(published))
          /\ published[Len(published)] = detect_tempos(beat_hist)
    /\ \A i \in 1..Len(published) : published[i] = None \/ IsBpm(published[i])

\* two whole blocks consumed, two publish calls made, without an estimate
C1_Witness ==
    /\ consumed = 2 * BlockSize
    /\ pc = "get"
    /\ Len(published) = 2
    /\ published[2] = None

\* C8: the queue never holds more than QueueCap samples; it holds exactly
\* the samples added and not yet dequeued, in the order they were added;
\* put cannot complete while the queue is full and get cannot complete
\* while it is empty.
C8_BoundedFifoQueue ==
    /\ Len(queue) <= QueueCap
    /\ consumed + Len(queue) = produced
    /\ queue = StreamSlice(stream, consumed + 1, produced)
    /\ (arg # NoSample /\ Len(queue) = QueueCap) => ~ENABLED AddSamplePut
    /\ queue = <<>> => ~ENABLED ConsumerGet

\* the producer waits in put on a full queue that holds both sample values
C8_Witness ==
    /\ arg # NoSample
    /\ Len(queue) = QueueCap
    /\ queue[1] # queue[QueueCap]
    /\ consumed > 0

\* C9: a block handed to analysis has BlockSize entries and is the block
\* of that number of the stream, in arrival order; the slots of data filled
\* since the last analysis are the samples that followed it.
C9_BlockIntegrity ==
    /\ Len(published) >= 1 =>
          /\ Len(lastBlock) = BlockSize
          /\ lastBlock = StreamBlock(stream, Len(published))
    /\ pc = "process" => data = StreamBlock(stream, consumed \div BlockSize)
    /\ pc = "get" =>
          /\ idx = consumed % BlockSize
          /\ SubSeq(data, 1, idx) = StreamSlice(stream, consumed - idx + 1, consumed)
    /\ Len(published) <= consumed \div BlockSize

\* the second block was analysed, it differs from the first in every slot,
\* and a third, partial block has begun to overwrite the buffer
C9_Witness ==
    /\ Len(published) = 2
    /\ \A i \in 1..BlockSize : lastBlock[i] # StreamAt(stream, i)
    /\ idx = 1
    /\ data[1] # lastBlock[1]

Last(s) == s[Len(s)]

\* C2: warm-up.  While no beat history holds 43*7 flags every publish call
\* so far carried None; a BPM is first published for block 43 - 1 + 43*7 at
\* the earliest, and only from a state in which a beat history is full.
C2_WarmUp ==
    /\ (\A b \in 1..NumBands : Len(beat_hist[b]) < BeatHistLen) =>
          \A i \in 1..Len(published) : published[i] = None
    /\ \A i \in 1..Len(published) :
          published[i] # None => i >= BlocksPerSec - 1 + BeatHistLen
    /\ (Len(published) >= 1 /\ Last(published) # None) =>
          \E b \in 1..LowBands : Len(beat_hist[b]) = BeatHistLen

\* the first estimate arrives with the block that fills the beat history
C2_Witness ==
    /\ Len(published) = BlocksPerSec - 1 + BeatHistLen
    /\ Last(published) # None
    /\ published[Len(published) - 1] = None
    /\ Len(beat_hist[1]) = BeatHistLen

\* C3: silence.  On the all-zero stream no beat flag is ever true in any
\* band and every publish call carries None.
C3_Silence ==
    stream.kind = "silence" =>
        /\ \A b \in 1..NumBands : \A i \in 1..Len(beat_hist[b]) :
              beat_hist[b][i] = FALSE
        /\ \A i \in 1..Len(published) : published[i] = None

\* the whole silent stream was processed with full histories
C3_Witness ==
    /\ stream.kind = "silence"
    /\ Len(published) = MaxBlocks
    /\ Len(beat_hist[1]) = BeatHistLen
    /\ SumSeq(energy_hist[1]) = 0

\* C4: every BPM passed to publish lies strictly between 71 and 139.
C4_PlausibilityBound ==
    \A i \in 1..Len(published) :
        published[i] # None =>
            /\ published[i].den > 0
            /\ 71 * published[i].den < published[i].num
            /\ published[i].num < 139 * published[i].den

\* an estimate selected across two bands that beat on different blocks
C4_Witness ==
    /\ stream.kind = "bands" /\ stream.b > 0
    /\ Len(published) >= 1 /\ Last(published) # None
    /\ \E i \in 1..Len(beat_hist[1]) : beat_hist[1][i] /\ ~beat_hist[2][i]
    /\ \E i \in 1..Len(beat_hist[2]) : beat_hist[2][i] /\ ~beat_hist[1][i]

\* C7: convergence.  On a click stream of tempo T = stream.a every BPM
\* published is strictly within 3 of T, and once the beat history is full
\* at least one BPM has been published.
C7_Convergence ==
    stream.kind = "click" =>
        /\ \A i \in 1..Len(published) :
              published[i] # None =>
                  /\ (stream.a - 3) * published[i].den < published[i].num
                  /\ published[i].num < (stream.a + 3) * published[i].den
        /\ Len(beat_hist[1]) = BeatHistLen =>
              \E i \in 1..Len(published) : published[i] # None

\* a 120 BPM click stream processed to its end, whose estimates moved
\* between the two neighbouring gap lengths as the window slid
C7_Witness ==
    /\ stream.kind = "click" /\ stream.a = 120
    /\ Len(published) = MaxBlocks
    /\ \E i, j \in 1..Len(published) :
          /\ published[i] # None /\ published[j] # None
          /\ published[i].den = 21 /\ published[j].den = 22

\* C10 as stated: a flag that feeds tempo estimation is true only when at
\* least 2 of the lower bands beat in the same block.
C10_Original_AggregateFlag ==
    \A b \in 1..LowBands :
        (Len(beat_hist[b]) > 0 /\ Last(beat_hist[b])) =>
            Cardinality({c \in 1..LowBands :
                Len(beat_hist[c]) > 0 /\ Last(beat_hist[c])}) >= 2

\* C10 as amended: each lower band has its own flag per block, true iff
\* that band's energy for the block (the newest entry of its energy
\* history) strictly exceeds 1.3 times the mean of its energy history; the
\* lower bands' histories grow together and the upper bands' stay empty.
C10_PerBandFlags ==
    /\ \A b \in 1..LowBands :
          Len(beat_hist[b]) > 0 =>
              (Last(beat_hist[b]) <=>
                  10 * 43 * Last(energy_hist[b]) > 13 * SumSeq(energy_hist[b]))
    /\ \A b \in 1..LowBands : Len(beat_hist[b]) = Len(beat_hist[1])
    /\ \A b \in (LowBands + 1)..NumBands : beat_hist[b] = <<>>

\* an estimate published from the flags of one band alone
C10_Witness ==
    /\ Len(published) >= 1 /\ Last(published) # None
    /\ \E i \in 1..Len(beat_hist[1]) : beat_hist[1][i]
    /\ \A i \in 1..Len(beat_hist[2]) : ~beat_hist[2][i]

\* C5: determinism.  A fresh pipeline fed the stream again publishes, call
\* by call, what the first one published, whatever the interleaving of
\* producer and consumer in either run; at the end the two logs are equal.
C5_Determinism ==
    run = 2 =>
        /\ Len(published) <= Len(firstRun)
        /\ \A i \in 1..Len(published) : published[i] = firstRun[i]
        /\ Finished => published = firstRun

\* the replay of a stream whose two lower bands give different estimates,
\* one vote each, has published its last estimate
C5_Witness ==
    /\ run = 2
    /\ Finished
    /\ stream.kind = "bands"
    /\ Len(published) = MaxBlocks
    /\ Last(published) # None
    /\ detect_tempo(beat_hist[1]) # None
    /\ detect_tempo(beat_hist[2]) # None
    /\ detect_tempo(beat_hist[1]) # detect_tempo(beat_hist[2])

\* positions of the true flags of a history
Beats(h) == {i \in 1..Len(h) : h[i]}

\* number of pairs of true flags exactly g apart
Occ(h, g) == Cardinality({p \in Beats(h) : (p + g) \in Beats(h)})

\* gap lengths in 19..34 with at least 2 such pairs
VotingGaps(h) == {g \in 19..34 : Occ(h, g) >= 2}

\* C6: minimum votes.  For a full history, if no gap length in 19..34 has
\* at least 2 occurrences (so fewer than 2 votes remain; in particular
\* when no pair of true flags lies at an accepted distance) the estimator
\* returns None; a BPM it returns is 43*60/g for a gap length g in 19..34
\* that has at least 2 occurrences.
C6_MinimumVotes ==
    (result # <<>> /\ Len(hist) = BeatHistLen) =>
        /\ VotingGaps(hist) = {} => result[1] = None
        /\ (\A g \in 19..34 : Occ(hist, g) = 0) => result[1] = None
        /\ result[1] # None =>
              /\ result[1].num = 43 * 60
              /\ result[1].den \in VotingGaps(hist)

\* a full history with two accepted gap lengths seen once each: two pairs,
\* no votes, no estimate
C6_Witness ==
    /\ result = <<None>>
    /\ Len(hist) = BeatHistLen
    /\ Cardinality({g \in 19..34 : Occ(hist, g) = 1}) >= 2

\* the votes cast per gap length: one per occurrence when the gap length
\* has at least 2 occurrences, none otherwise
Votes(h) == [g \in 19..34 |-> IF Occ(h, g) >= 2 THEN Occ(h, g) ELSE 0]

\* sum of f[g] over the gap lengths g..34
RECURSIVE SumGaps(_, _)
SumGaps(f, g) == IF g > 34 THEN 0 ELSE f[g] + SumGaps(f, g + 1)

RECURSIVE ProdSet(_)
ProdSet(S) ==
    IF S = {} THEN 1
    ELSE LET x == CHOOSE y \in S : TRUE IN x * ProdSet(S \ {x})

\* A vote for g is worth 43*60/g BPM.  With D the product of the voting
\* gap lengths, that is (43*60/D) * (D \div g), so votes are compared and
\* averaged as the integers D \div g.
VoteScale(v) == ProdSet({g \in 19..34 : v[g] > 0})

VoteUnits(v) == LET D == VoteScale(v) IN [g \in 19..34 |-> D \div g]

\* n * (vote - mean of all votes), n the number of votes
VoteDevs(v) ==
    LET u == VoteUnits(v)
        n == SumGaps(v, 19)
        total == SumGaps([g \in 19..34 |-> v[g] * u[g]], 19)
    IN [g \in 19..34 |-> n * u[g] - total]

\* the votes no farther than one (population) standard deviation from the
\* mean of all votes: dev^2 <= (sum of dev^2) / n
SurvivingVotes(v) ==
    LET d == VoteDevs(v)
        n == SumGaps(v, 19)
        sumsq == SumGaps([g \in 19..34 |-> v[g] * d[g] * d[g]], 19)
    IN [g \in 19..34 |-> IF n * d[g] * d[g] <= sumsq THEN v[g] ELSE 0]

\* C11 as stated: an estimate reported for a full history is the mean of
\* the votes that lie within one standard deviation of the mean of all
\* votes, and at least 2 votes survive.  (mean of survivors = 43*60/den
\* iff  number of survivors * D = sum of surviving units * den)
C11_Original_MeanOfSurvivors ==
    (result # <<>> /\ Len(hist) = BeatHistLen /\ result[1] # None) =>
        LET v == Votes(hist)
            surv == SurvivingVotes(v)
            u == VoteUnits(v)
        IN /\ SumGaps(surv, 19) >= 2
           /\ SumGaps(surv, 19) * VoteScale(v)
                 = SumGaps([g \in 19..34 |-> surv[g] * u[g]], 19)
                     * result[1].den

\* C11, amended: an estimate reported for a full history is the single
\* most frequent vote, 43*60/g for a gap length g in 19..34 that has at
\* least 2 occurrences and at least as many occurrences as every other
\* gap length that votes; no mean is taken and no vote is discarded for
\* its distance from the mean.  It is reported only if there are at least
\* 2 votes in all.
C11_MostFrequentVote ==
    (result # <<>> /\ Len(hist) = BeatHistLen /\ result[1] # None) =>
        LET v == Votes(hist) IN
        /\ result[1] = gap_to_bpm(result[1].den)
        /\ result[1].den \in 19..34
        /\ v[result[1].den] >= 2
        /\ \A g \in 19..34 : v[g] <= v[result[1].den]
        /\ SumGaps(v, 19) >= 2

\* a full history with 3 votes for one gap length and 2 for another: the
\* estimate is the vote of the first, not a mean
C11_Witness ==
    /\ result # <<>>
    /\ Len(hist) = BeatHistLen
    /\ result[1] # None
    /\ \E g \in VotingGaps(hist) :
          /\ g # result[1].den
          /\ Occ(hist, g) < Occ(hist, result[1].den)

\* gap_length_counts[g], 0 when the dict has no key g
CounterOf(g) == IF g \in DOMAIN gap_counts THEN gap_counts[g] ELSE 0

\* C12: gap counting.  For a full history h (indices 0..300, h[s] being
\* hist[s + 1]) and each g in 19..34 the counter of g is the number of
\* indices s >= 0 with s + g <= 300 and h[s], h[s + g] both true; no gap
\* length outside 19..34 (35 included) gets a counter, and none gets a
\* vote: an estimate is 43*60/g for a g in 19..34.
C12_GapCounting ==
    (result # <<>> /\ Len(hist) = BeatHistLen) =>
        /\ \A g \in 19..34 :
              CounterOf(g) =
                  Cardinality({s \in 0..300 :
                                  s + g <= 300 /\ hist[s + 1] /\ hist[s + g + 1]})
        /\ DOMAIN gap_counts \subseteq 19..34
        /\ 35 \notin DOMAIN gap_counts
        /\ result[1] # None =>
              /\ result[1].den \in 19..34
              /\ result[1].num = 60 * 43

\* a full history whose last flag (index 300) is true and closes the
\* second pair at distance 19
C12_Witness ==
    /\ result # <<>>
    /\ Len(hist) = BeatHistLen
    /\ hist[301] /\ hist[301 - 19] /\ hist[301 - 38]
    /\ CounterOf(19) = 2

\* C13 as stated: when a block is processed with the energy history
\* holding 43 entries of earlier blocks, a lower band's flag is true iff
\* the block's energy in the band exceeds 1.3 times the mean of those 43
\* earlier energies; the block's own energy is not in the baseline.
C13_Original_PriorBaseline ==
    [][(pc = "process" /\ pc' = "get" /\ Len(energy_hist[1]) = 43) =>
          \A b \in 1..LowBands :
              Last(beat_hist'[b]) <=>
                  (10 * 43 * SubBandEnergies(data)[b]
                      > 13 * SumSeq(energy_hist[b]))]_vars

\* C13, amended: the baseline is the mean of the 43 most recent energies
\* of the band with the current block's energy among them: when a block
\* is processed after 42 or more earlier ones, a lower band's flag is
\* true iff the block's energy e in the band satisfies
\* e > 1.3 * (e + the energies of the 42 preceding blocks) / 43.
C13_BaselineIncludesCurrent ==
    [][(pc = "process" /\ pc' = "get" /\ Len(energy_hist[1]) >= 42) =>
          \A b \in 1..LowBands :
              LET e == SubBandEnergies(data)[b]
                  n == Len(energy_hist[b])
                  preceding == SubSeq(energy_hist[b], n - 41, n)
              IN /\ beat_hist'[b] # <<>>
                 /\ Last(beat_hist'[b]) <=>
                        (10 * 43 * e > 13 * (e + SumSeq(preceding)))]_vars

\* after 49 blocks of energy 49, block 50 of energy 64 (more than 1.3
\* times 49) has been processed and its flag is false
C13_Witness ==
    /\ stream.kind = "steady"
    /\ pc = "get"
    /\ Len(published) = stream.body[1]
    /\ Len(energy_hist[1]) = 43
    /\ \A i \in 1..42 : energy_hist[1][i] = energy_hist[1][1]
    /\ 10 * Last(energy_hist[1]) > 13 * energy_hist[1][1]
    /\ energy_hist[1][1] > 0
    /\ Last(beat_hist[1]) = FALSE

Min(x, y) == IF x <= y THEN x ELSE y

Max(x, y) == IF x >= y THEN x ELSE y

\* C14 as stated: every processed block appends one flag, so after b
\* processed blocks (b publish calls) a beat history holds min(b, 301)
\* flags, the blocks of the cold start having appended false.
C14_Original_OneFlagPerBlock ==
    \A b \in 1..LowBands :
        Len(beat_hist[b]) = Min(Len(published), 301)

\* C14, amended: a block appends one flag to each lower band's beat
\* history only if the energy histories are full once its own energies
\* are in, that is from the 43rd block on; the 42 blocks before append
\* nothing.  After b processed blocks each lower band's beat history
\* holds min(max(b - 42, 0), 301) flags.
C14_OneFlagPerBlockAfterColdStart ==
    \A b \in 1..LowBands :
        Len(beat_hist[b]) = Min(Max(Len(published) - 42, 0), 301)

\* 42 blocks processed, 42 energies per band, and no flag recorded yet
C14_Witness ==
    /\ Len(published) = 42
    /\ Len(energy_hist[1]) = 42
    /\ \A b \in 1..NumBands : beat_hist[b] = <<>>

\* the last Min(n, Len(s)) entries of s
LastN(s, n) == SubSeq(s, Len(s) - Min(n, Len(s)) + 1, Len(s))

\* C15: ring buffers.  In every state each sub-band energy history holds
\* at most 43 entries and each beat history at most 301.  An energy
\* history holds an entry for each of the most recent blocks processed
\* (all of them up to 43), its oldest and its newest entry being the band
\* energies of the oldest and the newest of those blocks; a processed
\* block leaves in it the most recent 42 of the entries it held followed
\* by the new one, and a block that records a flag leaves in the beat
\* history the most recent 300 of the flags it held followed by the new
\* one: a full buffer loses its oldest entry and nothing else.
C15_RingBuffers ==
    /\ [](\A b \in 1..NumBands :
            /\ Len(energy_hist[b]) <= 43
            /\ Len(beat_hist[b]) <= 301
            /\ Len(energy_hist[b]) = Min(Len(published), 43))
    /\ [][(pc = "process" /\ pc' = "get") =>
            /\ \A i \in {1, Len(energy_hist'[1])} :
                  LET k == Len(published') - Len(energy_hist'[1]) + i
                      e == SubBandEnergies(StreamBlock(stream, k))
                  IN \A b \in 1..NumBands : energy_hist'[b][i] = e[b]
            /\ \A b \in 1..NumBands :
                  /\ energy_hist'[b] =
                        Append(LastN(energy_hist[b], 42), Last(energy_hist'[b]))
                  /\ beat_hist'[b] # beat_hist[b] =>
                        beat_hist'[b] =
                            Append(LastN(beat_hist[b], 300), Last(beat_hist'[b]))]_vars

\* a full beat history that has lost its first flags: 301 flags after
\* more than 343 blocks, the oldest energy being that of block k - 42
C15_Witness ==
    /\ Len(published) > 301 + 42
    /\ Len(beat_hist[1]) = 301
    /\ Len(energy_hist[1]) = 43
    /\ stream.kind = "click"
    /\ beat_hist[1][1] = TRUE

\* the phase, by the tests the code makes: 0 WARMUP while
\* len(energy history) == 43 fails, 1 ACCUMULATING while it holds and
\* len(beat history) == 43*7 fails, 2 ESTIMATING when both hold
PhaseRank ==
    IF Len(energy_hist[1]) # 43 THEN 0
    ELSE IF Len(beat_hist[1]) # 301 THEN 1
    ELSE 2

\* C16: phase machine.  A step leaves the phase as it is or moves it to
\* the next one (WARMUP -> ACCUMULATING -> ESTIMATING), never back; all
\* bands are in the same phase; in WARMUP no flag is recorded, so no true
\* one; every value published before ESTIMATING is None; and the consumer
\* is always inside its loop, at get or processing a block: no phase is
\* terminal.
C16_PhaseMachine ==
    /\ [][PhaseRank' \in {PhaseRank, PhaseRank + 1}]_vars
    /\ [](/\ \A b \in 1..NumBands :
                Len(energy_hist[b]) = Len(energy_hist[1])
          /\ \A b \in 1..LowBands : Len(beat_hist[b]) = Len(beat_hist[1])
          /\ PhaseRank = 0 =>
                \A b \in 1..NumBands : \A i \in 1..Len(beat_hist[b]) :
                    beat_hist[b][i] # TRUE
          /\ PhaseRank < 2 =>
                \A i \in 1..Len(published) : published[i] = None
          /\ pc \in {"get", "process"})

\* ESTIMATING, reached through the two other phases, with an estimate
\* published
C16_Witness ==
    /\ PhaseRank = 2
    /\ Len(published) > 43 + 301
    /\ published[Len(published)] # None
    /\ published[43 + 300] # None
    /\ published[43 + 299] = None

\* C17: a transform failure is survivable.  A block whose analysis ends
\* without a publish (the transform failed) leaves the energy histories
\* as they were, records no flag, and leaves the consumer at get, ready
\* for the samples of the next block; the consumer's loop never ends, and
\* the producer is never left waiting on a full queue that nobody drains.
C17_TransformFailureSurvivable ==
    /\ [][(pc = "process" /\ pc' # "process" /\ published' = published) =>
            /\ energy_hist' = energy_hist
            /\ beat_hist' = beat_hist
            /\ pc' = "get"]_vars
    /\ [](pc \in {"get", "process"})
    /\ [](~(pc = "dead" /\ arg # NoSample /\ Len(queue) = QueueCap))

\* C18: producer/consumer lag.  When n add_sample calls have returned the
\* consumer has dequeued at least n - QueueCap samples and at most n, and
\* the number of publish calls made lies between
\* floor((n - QueueCap) / BlockSize) - 1 and floor(n / BlockSize).
C18_ProducerConsumerLag ==
    /\ consumed >= produced - QueueCap
    /\ consumed <= produced
    /\ Len(published) >= (produced - QueueCap) \div BlockSize - 1
    /\ Len(published) <= produced \div BlockSize

\* the producer has fed the whole stream, its last call has returned, and
\* the last complete block has not been published: some of its samples
\* are still in the queue
C18_Witness ==
    /\ produced = StreamLen(stream)
    /\ arg = NoSample
    /\ consumed < (produced \div BlockSize) * BlockSize
    /\ Len(published) < produced \div BlockSize

\* C19: progress.  With fair scheduling and block analyses that return,
\* every add_sample call in progress eventually returns, every complete
\* block that has been added is eventually published (the k-th block once
\* k * BlockSize calls have returned), and the producer is never waiting
\* on a full queue while the consumer waits on an empty one.
C19_Progress ==
    /\ [](~(/\ arg # NoSample /\ Len(queue) = QueueCap
            /\ pc = "get" /\ queue = <<>>))
    /\ (arg # NoSample) ~> (arg = NoSample)
    /\ \A k \in 1..(FreeLen \div BlockSize) :
          (produced >= k * BlockSize) ~> (Len(published) >= k)

\* the producer waits in put on a full queue while the consumer is busy
\* with a block
C19_Witness ==
    /\ arg # NoSample
    /\ Len(queue) = QueueCap
    /\ pc = "process"
    /\ produced = QueueCap + BlockSize

\* C20: the plausibility check is vacuous.  For every gap length g in
\* 19..34 the value 43*60/g lies strictly inside (71, 139), that is
\* 71*g < 2580 < 139*g.  For a full history with at least 2 votes the
\* estimate is 43*60/g for the single gap length g with the most votes,
\* the smallest such g when several have the most; it is never None, so
\* the final comparison rejects nothing.  With fewer than 2 votes the
\* result is None.
C20_PlausibilityVacuous ==
    /\ \A g \in 19..34 :
          /\ 71 * g < 60 * 43 /\ 60 * 43 < 139 * g
          /\ BpmAbove(gap_to_bpm(g), 71) /\ BpmBelow(gap_to_bpm(g), 139)
    /\ (result # <<>> /\ Len(hist) = BeatHistLen) =>
          LET v == Votes(hist)
              top == CHOOSE g \in 19..34 :
                        /\ \A h \in 19..34 : v[h] <= v[g]
                        /\ \A h \in 19..(g - 1) : v[h] < v[g]
          IN IF SumGaps(v, 19) < 2 THEN result[1] = None
             ELSE result[1] = [num |-> 60 * 43, den |-> top]

\* two gap lengths with equally many votes: the estimate is that of the
\* smaller gap length
C20_Witness ==
    /\ result # <<>>
    /\ Len(hist) = BeatHistLen
    /\ result[1] # None
    /\ \E g \in 19..34 :
          /\ g > result[1].den
          /\ Occ(hist, g) >= 2
          /\ Occ(hist, g) = Occ(hist, result[1].den)

=============================================================================
